---- MODULE Spec2Model ----
(***************************************************************************)
(* A model of ptinstaller.py: the listing parser with its cache            *)
(* (PythonistaToolsRepo), the two installers (GitHubRepoInstaller,         *)
(* GistInstaller) and the install / uninstall orchestration                *)
(* (PythonistaToolsInstaller), the latter with its background task.        *)
(*                                                                         *)
(* Strings are sequences of tokens (a token is an atomic piece of text),   *)
(* so that concatenation, prefix stripping and '[%s]' formatting are       *)
(* computed and not assumed.  Python values that matter for truthiness     *)
(* and tuple unpacking carry their type.                                   *)
(***************************************************************************)
EXTENDS Integers, Sequences, FiniteSets, TLC

\* Bounds of the model.
MaxTasks == 3
MaxLines == 3
MaxCalls == 3

(***************************************************************************)
(* Python values                                                           *)
(***************************************************************************)
PyNone == [type |-> "NoneType"]
PyStr(s) == [type |-> "str", val |-> s]
PyTuple(t) == [type |-> "tuple", val |-> t]
\* A bound method object, such as m.groups when it is not called.
PyBoundMethod(result) == [type |-> "builtin_function_or_method", val |-> result]

\* Python truth value testing.
Truthy(v) ==
    CASE v.type = "NoneType" -> FALSE
      [] v.type = "str" -> v.val # <<>>
      [] v.type = "tuple" -> v.val # <<>>
      [] OTHER -> TRUE

(***************************************************************************)
(* URLs: scheme "://" host "/" path[1] "/" path[2] ...                     *)
(* A path segment is a sequence of tokens; HexTok are tokens made of       *)
(* [0-9a-f] only, AlnumTok of [0-9a-zA-Z] only.                            *)
(***************************************************************************)
HexTok == {"abcdef1234567890", "12ab"}
AlnumTok == HexTok \cup {"bob", "alice", "tool", "XYZ", "app"}

Url(scheme, host, path) == [scheme |-> scheme, host |-> host, path |-> path]

GistUrl == Url("https", "gist.github.com", << <<"bob">>, <<"abcdef1234567890">> >>)
RepoUrl == Url("https", "github.com", << <<"alice">>, <<"tool">> >>)
StoreUrl == Url("https", "itunes.apple.com", << <<"app">> >>)
\* gist URLs the gist pattern does not accept, or accepts in part
UpperGistUrl == Url("https", "gist.github.com", << <<"bob">>, <<"XYZ">> >>)
PrefixGistUrl == Url("http", "gist.github.com", << <<"bob">>, <<"12ab", "XYZ">> >>)
AnonGistUrl == Url("https", "gist.github.com", << <<"abcdef1234567890">> >>)
DeepRepoUrl == Url("http", "github.com", << <<"alice">>, <<"tool">>, <<"tree">> >>)

RECURSIVE HexPrefix(_)
\* the longest prefix matched by [0-9a-f]*
HexPrefix(seg) ==
    IF seg = <<>> \/ Head(seg) \notin HexTok THEN <<>>
    ELSE <<Head(seg)>> \o HexPrefix(Tail(seg))

IsAlnum(seg) == \A i \in 1..Len(seg) : seg[i] \in AlnumTok

RECURSIVE JoinSlash(_)
JoinSlash(segs) ==
    IF segs = <<>> THEN <<>>
    ELSE IF Len(segs) = 1 THEN Head(segs)
    ELSE Head(segs) \o <<"/">> \o JoinSlash(Tail(segs))

\* re.match(PATTERN_GIST_ID, url): 'http(s?)://gist.github.com/([0-9a-zA-Z]*)/([0-9a-f]*)'
GistMatch(url) ==
    /\ url.scheme \in {"http", "https"}
    /\ url.host = "gist.github.com"
    /\ Len(url.path) >= 2
    /\ IsAlnum(url.path[1])

\* GistInstaller.get_gist_id: m.group(3) if m else None
get_gist_id(url) ==
    IF GistMatch(url) THEN PyStr(HexPrefix(url.path[2])) ELSE PyNone

\* re.match(PATTERN_USER_REPO, url): '^https?://github.com/(.+)/(.+)', both greedy
UserRepoMatch(url) ==
    /\ url.scheme \in {"http", "https"}
    /\ url.host = "github.com"
    /\ Len(url.path) >= 2

\* what m.groups() would return: (everything up to the last '/', the rest)
UserRepoGroups(url) ==
    << JoinSlash(SubSeq(url.path, 1, Len(url.path) - 1)), url.path[Len(url.path)] >>

\* GitHubRepoInstaller.get_github_user_repo: m.groups if m else None.
\* The method is not called: the value is the bound method object.
get_github_user_repo(url) ==
    IF UserRepoMatch(url) THEN PyBoundMethod(UserRepoGroups(url)) ELSE PyNone

(***************************************************************************)
(* The file system under one target folder.  Paths are relative to the     *)
(* target folder and written as token sequences with "/" tokens; dirs      *)
(* holds the sub-directories (without a trailing "/"), files maps a file   *)
(* path to its content.                                                    *)
(***************************************************************************)
NoFiles == [p \in {} |-> ""]
Put(f, k, v) == [p \in (DOMAIN f) \cup {k} |-> IF p = k THEN v ELSE f[p]]
Del(f, ks) == [p \in (DOMAIN f) \ ks |-> f[p]]

AbsentTree == [present |-> FALSE, dirs |-> {}, files |-> NoFiles]
EmptyTree == [present |-> TRUE, dirs |-> {}, files |-> NoFiles]

EndsWithSlash(p) == p # <<>> /\ p[Len(p)] = "/"

RECURSIVE StripSlashes(_)
StripSlashes(p) == IF EndsWithSlash(p) THEN StripSlashes(SubSeq(p, 1, Len(p) - 1)) ELSE p

SlashPositions(p) == {i \in 1..Len(p) : p[i] = "/"}

\* os.path.dirname of a relative path; <<>> is the target folder itself
Parent(p) ==
    IF SlashPositions(p) = {} THEN <<>>
    ELSE LET last == CHOOSE i \in SlashPositions(p) : \A j \in SlashPositions(p) : j <= i
         IN StripSlashes(SubSeq(p, 1, last))

\* the directory and all its ancestors below the target folder
RECURSIVE Ancestors(_)
Ancestors(d) == IF d = <<>> THEN {} ELSE {d} \cup Ancestors(Parent(d))

\* the first-level name of a path
TopName(p) ==
    IF SlashPositions(p) = {} THEN p
    ELSE LET first == CHOOSE i \in SlashPositions(p) : \A j \in SlashPositions(p) : i <= j
         IN SubSeq(p, 1, first - 1)

IsDir(tree, d) == tree.present /\ (d = <<>> \/ d \in tree.dirs)

\* os.path.exists(os.path.join(target_folder, name))
PathExists(tree, name) ==
    IF EndsWithSlash(name) THEN IsDir(tree, StripSlashes(name))
    ELSE IsDir(tree, name) \/ (tree.present /\ name \in DOMAIN tree.files)

\* os.makedirs: creates the leaf and every missing intermediate directory,
\* the target folder included; OSError when a component is a file
Makedirs(tree, d) ==
    IF \E a \in Ancestors(d) : a \in DOMAIN tree.files
    THEN [tree |-> tree, err |-> "OSError"]
    ELSE [tree |-> [tree EXCEPT !.present = TRUE, !.dirs = @ \cup Ancestors(d)],
          err |-> "none"]

\* open(fname, 'w') followed by write and close: IOError when the parent
\* directory is missing or the path is a directory
WriteFile(tree, name, data) ==
    IF ~IsDir(tree, Parent(name)) \/ IsDir(tree, name)
    THEN [tree |-> tree, err |-> "IOError"]
    ELSE [tree |-> [tree EXCEPT !.files = Put(@, name, data)], err |-> "none"]

(***************************************************************************)
(* GistInstaller                                                           *)
(***************************************************************************)
NoLanguage == "<none>"
FileInfo(filename, content, language) ==
    [filename |-> filename, content |-> content, language |-> language]

PyA == FileInfo(<<"tool.py">>, "print 1", "Python")
PyB == FileInfo(<<"util.py">>, "print 2", "Python")
LowerPy == FileInfo(<<"lower.py">>, "print 3", "python")
Txt == FileInfo(<<"README.txt">>, "read me", "Text")
NoLang == FileInfo(<<"notes">>, "notes", NoLanguage)

\* what the gist API answers: kind "ok" is a JSON object with a 'files' member
GistResponse(kind, files) == [kind |-> kind, files |-> files]
GistResponses ==
    {GistResponse(k, {}) : k \in {"net_error", "bad_json", "no_files_key"}}
    \cup {GistResponse("ok", fs) : fs \in
            {{}, {PyA}, {PyA, Txt}, {PyA, PyB}, {LowerPy, NoLang}, {PyA, LowerPy, PyB}}}

\* the language compared without regard to case
PyFilesAnyCase(files) == {f \in files : f.language \in {"Python", "python"}}

\* lines 169-174: the files whose language is 'Python'
PyFiles(files) == {f \in files : f.language = "Python"}

NoResult == [err |-> "none", filename |-> <<>>, content |-> ""]

\* GistInstaller.download
GistDownload(url, resp) ==
    IF Truthy(get_gist_id(url))
    THEN IF resp.kind # "ok" THEN [NoResult EXCEPT !.err = "GistDownloadError"]
         ELSE LET py_files == PyFiles(resp.files)
              IN IF Cardinality(py_files) > 1
                 THEN [NoResult EXCEPT !.err = "MultipleFilesInGistError"]
                 ELSE IF Cardinality(py_files) = 0
                 THEN [NoResult EXCEPT !.err = "NoFilesInGistError"]
                 ELSE LET file_info == CHOOSE f \in py_files : TRUE
                      IN [err |-> "none", filename |-> file_info.filename,
                          content |-> file_info.content]
    ELSE [NoResult EXCEPT !.err = "InvalidGistURLError"]

(***************************************************************************)
(* GitHubRepoInstaller                                                     *)
(***************************************************************************)
\* GitHubRepoInstaller.download: the unpacking of line 116 needs an iterable
\* of two items, line 118 names the temporary file <repo_name>-master.zip
GithubDownload(url) ==
    LET v == get_github_user_repo(url)
    IN IF v.type = "tuple" /\ Len(v.val) = 2
       THEN [err |-> "none", tmp_zipfile |-> v.val[2] \o <<"-master", ".zip">>]
       ELSE [err |-> "TypeError", tmp_zipfile |-> <<>>]

\* line 130: os.path.splitext(os.path.basename(tmp_zipfile))[0] + '/'
BaseDir(tmp_zipfile) == SubSeq(tmp_zipfile, 1, Len(tmp_zipfile) - 1) \o <<"/">>

IsPrefix(pre, s) == Len(pre) <= Len(s) /\ SubSeq(s, 1, Len(pre)) = pre

\* line 135: name.split(base_dir, 1)[-1]: what follows the first occurrence
\* of base_dir, the whole name when there is none
SplitLast(name, base_dir) ==
    LET at == {i \in 1..Len(name) : IsPrefix(base_dir, SubSeq(name, i, Len(name)))}
    IN IF at = {} THEN name
       ELSE LET first == CHOOSE i \in at : \A j \in at : i <= j
            IN SubSeq(name, first + Len(base_dir), Len(name))

\* lines 134-148: one entry of the archive
ExtractEntry(tree, entry, base_dir) ==
    LET name == SplitLast(entry.name, base_dir)
    IN IF name = <<>> THEN [tree |-> tree, err |-> "none"]
       ELSE IF EndsWithSlash(name)
       THEN IF ~PathExists(tree, name) THEN Makedirs(tree, StripSlashes(name))
            ELSE [tree |-> tree, err |-> "none"]
       ELSE WriteFile(tree, name, entry.data)

RECURSIVE ExtractAll(_, _, _)
\* lines 133-148: the loop over zipfp.namelist(); an exception ends it and
\* leaves what was extracted so far
ExtractAll(tree, entries, base_dir) ==
    IF entries = <<>> THEN [tree |-> tree, err |-> "none"]
    ELSE LET r == ExtractEntry(tree, Head(entries), base_dir)
         IN IF r.err # "none" THEN r ELSE ExtractAll(r.tree, Tail(entries), base_dir)

Entry(name, data) == [name |-> name, data |-> data]
\* the archive tool-master/, tool-master/main.py, tool-master/lib/util.py
ToolArchive ==
    << Entry(<<"tool", "-master", "/">>, ""),
       Entry(<<"tool", "-master", "/", "main.py">>, "main"),
       Entry(<<"tool", "-master", "/", "lib", "/", "util.py">>, "util") >>
\* the same with a directory entry for lib/
ToolArchiveWithDirs ==
    << Entry(<<"tool", "-master", "/">>, ""),
       Entry(<<"tool", "-master", "/", "main.py">>, "main"),
       Entry(<<"tool", "-master", "/", "lib", "/">>, ""),
       Entry(<<"tool", "-master", "/", "lib", "/", "util.py">>, "util") >>
Archives == {ToolArchive, ToolArchiveWithDirs}

\* GitHubRepoInstaller.install
GithubInstall(url, archive, tree) ==
    LET d == GithubDownload(url)
    IN IF d.err # "none" THEN [tree |-> tree, err |-> d.err]
       ELSE ExtractAll(tree, archive, BaseDir(d.tmp_zipfile))

(***************************************************************************)
(* State                                                                   *)
(***************************************************************************)
VARIABLES
    listing,            \* tool -> the URL the listing gives for the tool
    fs,                 \* tool -> the tree under get_target_folder(category, tool)
    tasks,              \* the installer calls in progress, in the order they were made
    ended,              \* the installer call that ended last, as it ended
    started,            \* the number of install calls made
    ui,                 \* the handler running on the UI thread (an uninstall's rmtree)
    title,              \* tool -> title of the tool's button (sender.title)
    hud,                \* tool -> the last console.hud_alert about the tool
    lastOp,             \* tool -> the last install / uninstall call and how it ended:
                        \*   "install", "uninstalling", "uninstalled" (folder removed),
                        \*   "uninstalled_absent" (no folder to remove), "uninstall_raised"
    browser,            \* the URLs handed to webbrowser.open
    cached_tools_dict,  \* PythonistaToolsRepo.cached_tools_dict
    net,                \* listing URL -> the markdown the network serves
    fetches,            \* listing URL -> number of requests.get(url) issued
    ret                 \* the last get_tools_from_md call: its url and result

instVars == <<listing, fs, tasks, ended, started, ui, title, hud, lastOp, browser>>
parseVars == <<cached_tools_dict, net, fetches, ret>>
vars == <<listing, fs, tasks, ended, started, ui, title, hud, lastOp, browser,
          cached_tools_dict, net, fetches, ret>>

\* The (category, tool) pairs.  The target folder of a pair is
\* INSTALLATION_ROOT/category/tool, each pair has its own folder and its own
\* button, and a call of an installer keeps nothing for the next: the pairs do
\* not act on each other, and the model follows one pair, of any kind of URL.
Tools == {"Tool"}
ToolUrls == {GistUrl, RepoUrl, StoreUrl}

\* PythonistaToolsInstaller.is_tool_installed
is_tool_installed(t) == fs[t].present

TaskIds == 1..MaxTasks
NoUrl == Url("", "", <<>>)
NoResponse == GistResponse("none", {})
\* An installer call.  via: "_install" (from install, in the background) or
\* "direct" (GistInstaller.install called on its own).  History kept for the
\* properties: route (the branch _install took), created (install made the
\* folder), undone (uninstall was called for the tool since), resp and before
\* (a direct call's API answer and the folder as the call found it).
NoCall ==
    [pc |-> "none", via |-> "none", tool |-> "none", url |-> NoUrl, resp |-> NoResponse,
     filename |-> <<>>, content |-> "", linked |-> FALSE,
     err |-> "none", undone |-> FALSE, before |-> AbsentTree,
     route |-> "none", created |-> FALSE]
IdleUi == [pc |-> "idle", tool |-> "none", names |-> {}]

\* a folder left by an earlier run of the program
OldTree == [present |-> TRUE, dirs |-> {}, files |-> Put(NoFiles, <<"tool.py">>, "old")]

InitInstaller ==
    /\ listing \in [Tools -> ToolUrls]
    /\ fs \in {[t \in Tools |-> tree] : tree \in {AbsentTree, OldTree}}
    /\ tasks = <<>>
    /\ ended = NoCall
    /\ started = 0
    /\ ui = IdleUi
    /\ title = [t \in Tools |-> IF fs[t].present THEN "Uninstall" ELSE "Install"]
    /\ hud = [t \in Tools |-> "none"]
    /\ lastOp = [t \in Tools |-> "none"]
    /\ browser = {}

(***************************************************************************)
(* PythonistaToolsInstaller.install (on the UI thread)                     *)
(***************************************************************************)
\* install without its lines 304-305
EnsureTargetFolderSkipped(tree) == tree

\* lines 304-305: if not os.path.exists(target_folder): os.makedirs(target_folder)
EnsureTargetFolder(tree) ==
    IF ~tree.present THEN Makedirs(tree, <<>>).tree ELSE tree

install(t) ==
    /\ ui.pc = "idle"
    /\ started < MaxTasks
    /\ started' = started + 1
    /\ title' = [title EXCEPT ![t] = "Loading"]
    /\ fs' = [fs EXCEPT ![t] = EnsureTargetFolder(@)]
    /\ tasks' = Append(tasks,
                       [NoCall EXCEPT !.pc = "start", !.via = "_install", !.tool = t,
                                      !.url = listing[t], !.created = ~fs[t].present])
    /\ lastOp' = [lastOp EXCEPT ![t] = "install"]
    /\ UNCHANGED <<listing, ended, ui, hud, browser, parseVars>>

(***************************************************************************)
(* PythonistaToolsInstaller._install (in the background)                   *)
(***************************************************************************)
Remove(seq, i) == SubSeq(seq, 1, i - 1) \o SubSeq(seq, i + 1, Len(seq))

\* lines 318-322 and 323-325: what _install shows; a direct call of an
\* installer shows nothing
Alert(task, err) ==
    LET t == task.tool
        caught == task.via = "_install"
    IN /\ title' = IF caught /\ err = "none" THEN [title EXCEPT ![t] = "Uninstall"] ELSE title
       /\ hud' = IF caught
                 THEN [hud EXCEPT ![t] = IF err = "none" THEN "installed" ELSE "failed"]
                 ELSE hud

\* the call tasks[i] ends as task: by returning (err "none") or by raising err
Finish(i, task, err) ==
    /\ tasks' = Remove(tasks, i)
    /\ ended' = [task EXCEPT !.pc = "ended", !.err = err, !.linked = FALSE,
                             !.filename = <<>>, !.content = ""]
    /\ Alert(task, err)

\* line 312-313: the gist branch is taken
DispatchGist(i) ==
    /\ i \in DOMAIN tasks
    /\ tasks[i].pc = "start"
    /\ Truthy(get_gist_id(tasks[i].url))
    /\ tasks' = [tasks EXCEPT ![i] = [@ EXCEPT !.pc = "gist_download", !.route = "gist"]]
    /\ UNCHANGED <<listing, fs, ended, started, ui, title, hud, lastOp, browser, parseVars>>

\* the API's answer, kept for a direct call to state what it had to do
Answer(task, resp) == IF task.via = "direct" THEN resp ELSE NoResponse

\* GistInstaller.install, line 188: download
GistDownloadStep(i) ==
    /\ i \in DOMAIN tasks
    /\ tasks[i].pc = "gist_download"
    /\ \E resp \in GistResponses :
        LET r == GistDownload(tasks[i].url, resp)
            answered == [tasks[i] EXCEPT !.resp = Answer(tasks[i], resp)]
        IN IF r.err # "none"
           THEN Finish(i, answered, r.err)
           ELSE /\ tasks' = [tasks EXCEPT ![i] =
                      [answered EXCEPT !.pc = "gist_open",
                                       !.filename = r.filename, !.content = r.content]]
                /\ UNCHANGED <<ended, title, hud>>
    /\ UNCHANGED <<listing, fs, started, ui, lastOp, browser, parseVars>>

\* GistInstaller.install, line 189: open(os.path.join(target_folder, filename), 'w')
GistOpen(i) ==
    /\ i \in DOMAIN tasks
    /\ tasks[i].pc = "gist_open"
    /\ LET t == tasks[i].tool
           r == WriteFile(fs[t], tasks[i].filename, "")
       IN IF r.err # "none"
          THEN Finish(i, tasks[i], r.err) /\ UNCHANGED fs
          ELSE /\ fs' = [fs EXCEPT ![t] = r.tree]
               /\ tasks' = [tasks EXCEPT ![i] = [@ EXCEPT !.pc = "gist_write", !.linked = TRUE]]
               /\ UNCHANGED <<ended, title, hud>>
    /\ UNCHANGED <<listing, started, ui, lastOp, browser, parseVars>>

\* GistInstaller.install, line 190: write and close.  A file removed since it
\* was opened takes the content with it.
GistWrite(i) ==
    /\ i \in DOMAIN tasks
    /\ tasks[i].pc = "gist_write"
    /\ fs' = IF tasks[i].linked
             THEN [fs EXCEPT ![tasks[i].tool].files =
                        Put(@, tasks[i].filename, tasks[i].content)]
             ELSE fs
    /\ Finish(i, tasks[i], "none")
    /\ UNCHANGED <<listing, started, ui, lastOp, browser, parseVars>>

\* lines 314-315: the repository branch; the archive is what the network serves
InstallFromGithub(i) ==
    /\ i \in DOMAIN tasks
    /\ tasks[i].pc = "start"
    /\ ~Truthy(get_gist_id(tasks[i].url))
    /\ Truthy(get_github_user_repo(tasks[i].url))
    /\ \E archive \in Archives :
         LET r == GithubInstall(tasks[i].url, archive, fs[tasks[i].tool])
         IN /\ fs' = [fs EXCEPT ![tasks[i].tool] = r.tree]
            /\ Finish(i, [tasks[i] EXCEPT !.route = "github"], r.err)
    /\ UNCHANGED <<listing, started, ui, lastOp, browser, parseVars>>

\* lines 316-317: any other url
OpenInBrowser(i) ==
    /\ i \in DOMAIN tasks
    /\ tasks[i].pc = "start"
    /\ ~Truthy(get_gist_id(tasks[i].url))
    /\ ~Truthy(get_github_user_repo(tasks[i].url))
    /\ browser' = browser \cup {tasks[i].url}
    /\ Finish(i, [tasks[i] EXCEPT !.route = "browser"], "none")
    /\ UNCHANGED <<listing, fs, started, ui, lastOp, parseVars>>

(***************************************************************************)
(* PythonistaToolsInstaller.uninstall (on the UI thread); shutil.rmtree is *)
(* listdir, a removal per name, then rmdir                                 *)
(***************************************************************************)
\* lines 331-335; how records whether the folder was removed or was absent
ReportUninstalled(t, how) ==
    /\ title' = [title EXCEPT ![t] = "Install"]
    /\ hud' = [hud EXCEPT ![t] = "uninstalled"]
    /\ lastOp' = [lastOp EXCEPT ![t] = how]
    /\ ui' = IdleUi

Undo(task, t) == IF task.tool = t THEN [task EXCEPT !.undone = TRUE] ELSE task

\* lines 328-329, and the return when the folder is absent
uninstall(t) ==
    /\ ui.pc = "idle"
    /\ tasks' = [i \in DOMAIN tasks |-> Undo(tasks[i], t)]
    /\ ended' = Undo(ended, t)
    /\ IF fs[t].present
       THEN /\ ui' = [pc |-> "rmtree_listdir", tool |-> t, names |-> {}]
            /\ lastOp' = [lastOp EXCEPT ![t] = "uninstalling"]
            /\ UNCHANGED <<title, hud>>
       ELSE ReportUninstalled(t, "uninstalled_absent")
    /\ UNCHANGED <<listing, fs, started, browser, parseVars>>

TopNames(tree) ==
    {TopName(p) : p \in DOMAIN tree.files} \cup {TopName(d) : d \in tree.dirs}

RmtreeListdir ==
    /\ ui.pc = "rmtree_listdir"
    /\ ui' = [ui EXCEPT !.pc = "rmtree_remove", !.names = TopNames(fs[ui.tool])]
    /\ UNCHANGED <<listing, fs, tasks, ended, started, title, hud, lastOp, browser, parseVars>>

\* os.remove of a file, the recursive call for a sub-directory
RemoveName(tree, n) ==
    [tree EXCEPT !.files = Del(@, {p \in DOMAIN @ : TopName(p) = n}),
                 !.dirs = {d \in @ : TopName(d) # n}]

RmtreeRemove ==
    /\ ui.pc = "rmtree_remove"
    /\ \E n \in ui.names :
        /\ fs' = [fs EXCEPT ![ui.tool] = RemoveName(@, n)]
        /\ ui' = [ui EXCEPT !.names = @ \ {n}]
        /\ tasks' = [i \in DOMAIN tasks |->
                        IF tasks[i].tool = ui.tool /\ tasks[i].linked /\ tasks[i].filename = n
                        THEN [tasks[i] EXCEPT !.linked = FALSE] ELSE tasks[i]]
    /\ UNCHANGED <<listing, ended, started, title, hud, lastOp, browser, parseVars>>

\* rmtree(target_folder, ignore_errors=True): a failing rmdir is passed over
RmtreeRmdirIgnoringErrors ==
    LET t == ui.tool
    IN /\ ui.pc = "rmtree_remove"
       /\ ui.names = {}
       /\ fs' = IF TopNames(fs[t]) = {} THEN [fs EXCEPT ![t] = AbsentTree] ELSE fs
       /\ ReportUninstalled(t, "uninstalled")
       /\ UNCHANGED <<listing, tasks, ended, started, browser, parseVars>>

\* os.rmdir(path): OSError when the folder is not empty; then uninstall
\* raises and reports nothing
RmtreeRmdir ==
    LET t == ui.tool
    IN /\ ui.pc = "rmtree_remove"
       /\ ui.names = {}
       /\ IF TopNames(fs[t]) = {}
          THEN /\ fs' = [fs EXCEPT ![t] = AbsentTree]
               /\ ReportUninstalled(t, "uninstalled")
          ELSE /\ lastOp' = [lastOp EXCEPT ![t] = "uninstall_raised"]
               /\ ui' = IdleUi
               /\ UNCHANGED <<fs, title, hud>>
       /\ UNCHANGED <<listing, tasks, ended, started, browser, parseVars>>

(***************************************************************************)
(* PythonistaToolsRepo: the listing parser.  A document is a sequence of   *)
(* lines, a line a sequence of tokens; the two patterns are matched on the *)
(* tokens of a line (no token holds a line break, so no match spans lines).*)
(***************************************************************************)
RowLine(name, label, gap, desc) ==
    <<"|", " ", "[">> \o name \o <<"]", "[">> \o label \o <<"]">> \o gap
        \o <<"|", " ">> \o desc \o <<" ", "|">>
DefLine(label, url) == <<"[">> \o label \o <<"]", ":", " ">> \o url

\* the least position >= from whose token satisfies / does not satisfy, else 0
FirstAt(line, from, tok) ==
    LET at == {i \in from..Len(line) : line[i] = tok}
    IN IF at = {} THEN 0 ELSE CHOOSE i \in at : \A j \in at : i <= j
FirstNotAt(line, from, tok) ==
    LET at == {i \in from..Len(line) : line[i] # tok}
    IN IF at = {} THEN 0 ELSE CHOOSE i \in at : \A j \in at : i <= j

NoMatch == [ok |-> FALSE, name |-> <<>>, url |-> <<>>, description |-> <<>>]

\* PATTERN_NAME_URL_DESCRIPTION on one line:
\*   ^\| +\[([^]]+)\] *\[([^]]*)\][^|]+\| (.*) \|
MatchRow(line) ==
    LET i == FirstNotAt(line, 2, " ")           \* the '[' after '| +'
        j == FirstAt(line, i + 1, "]")          \* closes the name
        k == FirstNotAt(line, j + 1, " ")       \* the second '['
        l == FirstAt(line, k + 1, "]")          \* closes the label
        m == FirstAt(line, l + 1, "|")          \* ends [^|]+
        ends == {q \in (m + 2)..(Len(line) - 1) : line[q] = " " /\ line[q + 1] = "|"}
        q == CHOOSE x \in ends : \A y \in ends : y <= x    \* (.*) is greedy
    IN IF /\ Len(line) >= 1 /\ line[1] = "|"
          /\ i >= 3 /\ line[i] = "["
          /\ j > i + 1
          /\ k > 0 /\ line[k] = "["
          /\ l > 0
          /\ m > l + 1
          /\ m + 1 <= Len(line) /\ line[m + 1] = " "
          /\ ends # {}
       THEN [ok |-> TRUE, name |-> SubSeq(line, i + 1, j - 1),
             url |-> SubSeq(line, k + 1, l - 1), description |-> SubSeq(line, m + 2, q - 1)]
       ELSE NoMatch

\* PATTERN_NAME_URL on one line:  ^\[([^]]+)\]: *(.*)
MatchDef(line) ==
    LET j == FirstAt(line, 2, "]")
        u == FirstNotAt(line, j + 2, " ")
    IN IF /\ Len(line) >= 1 /\ line[1] = "["
          /\ j > 2
          /\ j + 1 <= Len(line) /\ line[j + 1] = ":"
       THEN [ok |-> TRUE, name |-> SubSeq(line, 2, j - 1),
             url |-> IF u = 0 THEN <<>> ELSE SubSeq(line, u, Len(line)),
             description |-> <<>>]
       ELSE NoMatch

RECURSIVE FindAll(_, _)
\* pattern.findall(md): the matches in document order
FindAll(md, isRow) ==
    IF md = <<>> THEN <<>>
    ELSE LET m == IF isRow THEN MatchRow(Head(md)) ELSE MatchDef(Head(md))
         IN (IF m.ok THEN <<m>> ELSE <<>>) \o FindAll(Tail(md), isRow)

RECURSIVE StripLeft(_)
StripLeft(s) == IF s # <<>> /\ Head(s) = " " THEN StripLeft(Tail(s)) ELSE s
RECURSIVE StripRight(_)
StripRight(s) ==
    IF s # <<>> /\ s[Len(s)] = " " THEN StripRight(SubSeq(s, 1, Len(s) - 1)) ELSE s
\* str.strip()
Strip(s) == StripRight(StripLeft(s))

\* '[%s]' % name
Bracket(name) == <<"[">> \o name \o <<"]">>

NoTools == [n \in {} |-> [url |-> <<>>, description |-> <<>>]]

RECURSIVE BuildTools(_, _)
\* lines 86-88: a later row of the same name replaces the earlier one
BuildTools(tools_dict, rows) ==
    IF rows = <<>> THEN tools_dict
    ELSE BuildTools(Put(tools_dict, Head(rows).name,
                        [url |-> Head(rows).url,
                         description |-> Strip(Head(rows).description)]),
                    Tail(rows))

\* lines 91-98: one definition line
ResolveOne(tools_dict, name, url) ==
    IF name \in DOMAIN tools_dict
    THEN [tools_dict EXCEPT ![name].url = url]
    ELSE [n \in DOMAIN tools_dict |->
            [url |-> IF tools_dict[n].url = name THEN url ELSE tools_dict[n].url,
             description |-> IF tools_dict[n].description = Bracket(name)
                             THEN url ELSE tools_dict[n].description]]

RECURSIVE Resolve(_, _)
\* lines 90-98
Resolve(tools_dict, defs) ==
    IF defs = <<>> THEN tools_dict
    ELSE Resolve(ResolveOne(tools_dict, Head(defs).name, Head(defs).url), Tail(defs))

\* line 101: {k: v for k, v in tools_dict.items() if v['url']}
FilterTools(tools_dict) ==
    [n \in {k \in DOMAIN tools_dict : tools_dict[k].url # <<>>} |-> tools_dict[n]]

\* The value of the local variable url at line 101: the loops of lines 87
\* and 90 use the parameter's name as a loop variable.
UrlAtLine101(url, rows, defs) ==
    IF defs # <<>> THEN defs[Len(defs)].url
    ELSE IF rows # <<>> THEN rows[Len(rows)].url
    ELSE url

\* lines 84-101: the tools of a document
ParseTools(md) == FilterTools(Resolve(BuildTools(NoTools, FindAll(md, TRUE)), FindAll(md, FALSE)))

\* The lines documents are made of.
Foo == <<"Foo">>
Bar == <<"Bar">>
Sp == <<" ">>
Lines ==
    { RowLine(Foo, <<>>, Sp, <<"desc">>),
      RowLine(Foo, <<"f">>, Sp, <<"[", "g", "]">>),
      RowLine(Bar, <<"f">>, Sp, <<"desc">>),
      RowLine(Bar, Foo, Sp, <<"[", "Foo", "]">>),
      RowLine(Bar, <<"g">>, Sp, <<" ", "[", "f", "]", " ">>),
      RowLine(Foo, <<"http://d">>, Sp, <<"desc">>),
      RowLine(Bar, <<>>, <<>>, <<"desc">>),
      DefLine(<<"f">>, <<"http://x">>),
      DefLine(<<"g">>, <<"http://y">>),
      DefLine(Foo, <<"http://z">>),
      DefLine(Bar, <<"http://y">>),
      DefLine(<<"f">>, <<>>),
      <<"#", " ", "Games">> }
Docs == UNION {[1..n -> Lines] : n \in 0..MaxLines}

\* the listing documents' URLs (download_url of get_categories)
GamesUrl == <<"http://raw/Games.md">>
UtilsUrl == <<"http://raw/Utils.md">>
DocUrls == {GamesUrl, UtilsUrl}
UtilsDocs ==
    { <<>>,
      << RowLine(<<"Baz">>, <<>>, Sp, <<"desc">>), DefLine(<<"Baz">>, <<"http://y">>) >> }

NoCache == [u \in {} |-> NoTools]
NoReturn == [url |-> <<>>, result |-> NoTools, fetched |-> FALSE]

InitParser ==
    /\ cached_tools_dict = NoCache
    /\ net \in {[u \in DocUrls |-> IF u = GamesUrl THEN d ELSE e] : d \in Docs, e \in UtilsDocs}
    /\ fetches = [u \in DocUrls |-> 0]
    /\ ret = NoReturn

\* PythonistaToolsRepo.get_tools_from_md
get_tools_from_md(url) ==
    /\ IF url \in DOMAIN cached_tools_dict
       THEN /\ ret' = [url |-> url, result |-> cached_tools_dict[url], fetched |-> FALSE]
            /\ UNCHANGED <<cached_tools_dict, fetches>>
       ELSE LET md == net[url]
                key == UrlAtLine101(url, FindAll(md, TRUE), FindAll(md, FALSE))
            IN /\ fetches[url] < MaxCalls
               /\ fetches' = [fetches EXCEPT ![url] = @ + 1]
               /\ cached_tools_dict' = Put(cached_tools_dict, key, ParseTools(md))
               /\ ret' = [url |-> url, result |-> cached_tools_dict'[key], fetched |-> TRUE]
    /\ UNCHANGED <<net, instVars>>

(***************************************************************************)
(* Specifications                                                          *)
(***************************************************************************)
\* the parser at rest, for the specifications of the installers
ParserAtRest ==
    /\ cached_tools_dict = NoCache
    /\ net = [u \in DocUrls |-> <<>>]
    /\ fetches = [u \in DocUrls |-> 0]
    /\ ret = NoReturn

\* install, uninstall and the background tasks
Init == InitInstaller /\ ParserAtRest
Next ==
    \/ \E t \in Tools : install(t)
    \/ \E t \in Tools : uninstall(t)
    \/ RmtreeListdir
    \/ RmtreeRemove
    \/ RmtreeRmdir
    \/ \E i \in TaskIds : DispatchGist(i)
    \/ \E i \in TaskIds : GistDownloadStep(i)
    \/ \E i \in TaskIds : GistOpen(i)
    \/ \E i \in TaskIds : GistWrite(i)
    \/ \E i \in TaskIds : InstallFromGithub(i)
    \/ \E i \in TaskIds : OpenInBrowser(i)
Spec == Init /\ [][Next]_vars

\* the listing parser and its cache
InitParse ==
    /\ InitParser
    /\ listing = [t \in Tools |-> StoreUrl]
    /\ fs = [t \in Tools |-> AbsentTree]
    /\ tasks = <<>>
    /\ ended = NoCall
    /\ started = 0
    /\ ui = IdleUi
    /\ title = [t \in Tools |-> "Install"]
    /\ hud = [t \in Tools |-> "none"]
    /\ lastOp = [t \in Tools |-> "none"]
    /\ browser = {}
NextParse == \E u \in DocUrls : get_tools_from_md(u)
SpecParse == InitParse /\ [][NextParse]_vars

\* GistInstaller.install called on its own, with any URL and target folder
GistTestUrls == {GistUrl, UpperGistUrl, PrefixGistUrl, AnonGistUrl, StoreUrl, RepoUrl}
GistTestTrees ==
    { AbsentTree, EmptyTree, OldTree,
      [present |-> TRUE, dirs |-> {}, files |-> Put(NoFiles, <<"README.txt">>, "old")],
      [present |-> TRUE, dirs |-> {<<"lib">>}, files |-> Put(NoFiles, <<"util.py">>, "old")] }
InitGist ==
    /\ ParserAtRest
    /\ listing = [t \in Tools |-> StoreUrl]
    /\ fs \in [Tools -> GistTestTrees]
    /\ \E u \in GistTestUrls :
          tasks = << [NoCall EXCEPT !.pc = "gist_download", !.via = "direct",
                                    !.tool = "Tool", !.url = u,
                                    !.before = fs["Tool"]] >>
    /\ ended = NoCall
    /\ started = 0
    /\ ui = IdleUi
    /\ title = [t \in Tools |-> "Install"]
    /\ hud = [t \in Tools |-> "none"]
    /\ lastOp = [t \in Tools |-> "none"]
    /\ browser = {}
NextGist ==
    \/ \E i \in TaskIds : GistDownloadStep(i)
    \/ \E i \in TaskIds : GistOpen(i)
    \/ \E i \in TaskIds : GistWrite(i)
SpecGist == InitGist /\ [][NextGist]_vars

(***************************************************************************)
(* Properties of install, uninstall and the background tasks (Spec)        *)
(***************************************************************************)
Ended == ended.pc = "ended"
\* an installer call ends in this step
Ending == Len(tasks') < Len(tasks)
\* the last call for the tool was an uninstall, and it returned
Uninstalled(t) == lastOp[t] \in {"uninstalled", "uninstalled_absent"}

\* C1 (first part): an install that succeeded, with no uninstall of the pair
\* called since, has is_tool_installed true.
C1_InstalledAfterSuccess ==
    (Ended /\ ended.via = "_install" /\ ended.err = "none" /\ ~ended.undone)
    => is_tool_installed(ended.tool)

\* C1 (second part): after an uninstall that returned, and until the next
\* install, is_tool_installed is false.
C1_AbsentAfterUninstall == \A t \in Tools : Uninstalled(t) => ~is_tool_installed(t)

\* C1 (third part): an uninstall called right after an uninstall that
\* returned leaves the file system as it is and reports 'uninstalled'.
C1_SecondUninstall ==
    \A t \in Tools :
        (Uninstalled(t) /\ uninstall(t))
        => (fs' = fs /\ hud'[t] = "uninstalled" /\ title'[t] = "Install"
            /\ lastOp'[t] = "uninstalled_absent" /\ ui' = IdleUi)

C9_FolderBeforeDispatch ==
    \A i \in DOMAIN tasks :
        (tasks[i].via = "_install" /\ ~tasks[i].undone) => is_tool_installed(tasks[i].tool)

\* C9 (second part): after a failed install, and until an uninstall is called,
\* is_tool_installed is true.
C9_InstalledAfterFailure ==
    (Ended /\ ended.via = "_install" /\ ended.err # "none" /\ ~ended.undone)
    => is_tool_installed(ended.tool)

\* C9 (third part): whatever the installer raises, _install shows the one
\* 'Installation failed', leaves the button alone and removes no folder.
C9_FailureReported ==
    (Ending /\ ended'.via = "_install" /\ ended'.err # "none")
    => /\ hud'[ended'.tool] = "failed"
       /\ title' = title
       /\ \A t \in Tools : fs[t].present => fs'[t].present

\* C9: a failed install is not rolled back: the folder install made stays,
\* every exception of the installer is reported as 'Installation failed', and
\* is_tool_installed is true after a failed install until an uninstall.
C9_FailedInstallNotRolledBack ==
    /\ [](C9_FolderBeforeDispatch /\ C9_InstalledAfterFailure)
    /\ [][C9_FailureReported]_vars

\* C9's case: an install has failed, no uninstall was called since, the
\* failure was shown and the folder install made is there.
C9_Witness ==
    /\ Ended /\ ended.via = "_install" /\ ended.err # "none"
    /\ ended.created /\ ~ended.undone
    /\ hud[ended.tool] = "failed"
    /\ is_tool_installed(ended.tool)

\* the three classes of URL, as the claims describe them
IsHex(seg) == seg # <<>> /\ \A i \in 1..Len(seg) : seg[i] \in HexTok
IsGistForm(url) ==
    /\ url.scheme \in {"http", "https"} /\ url.host = "gist.github.com"
    /\ Len(url.path) = 2 /\ IsHex(url.path[2])
IsRepoForm(url) ==
    /\ url.scheme \in {"http", "https"} /\ url.host = "github.com"
    /\ Len(url.path) = 2

\* what C4 says of a call that _install has routed
C4_Classified(call) ==
    LET url == call.url
    IN /\ IsGistForm(url) =>
            /\ call.route = "gist"
            /\ get_gist_id(url) = PyStr(url.path[2])
       /\ IsRepoForm(url) =>
            /\ call.route = "github"
            /\ get_github_user_repo(url) = PyTuple(<<url.path[1], url.path[2]>>)
            /\ call.pc = "ended" => call.err # "TypeError"
       /\ (~IsGistForm(url) /\ ~IsRepoForm(url)) => call.route = "browser"

\* C4: every URL is of exactly one class: a repository URL gives its owner and
\* its repo as values the installer can use, a gist URL gives the hex id, any
\* other URL is Unknown; _install routes each URL to the installer of its class.
C4_Classification ==
    /\ \A i \in DOMAIN tasks : tasks[i].route # "none" => C4_Classified(tasks[i])
    /\ (Ended /\ ended.via = "_install") => C4_Classified(ended)

\* the files C5 expects from the archive tool-master/, tool-master/main.py,
\* tool-master/lib/util.py
ToolFiles == Put(Put(NoFiles, <<"main.py">>, "main"), <<"lib", "/", "util.py">>, "util")

\* C5: installing the repository archive leaves under the target folder exactly
\* the file entries with the wrapper prefix stripped, no path holding the
\* '<repo>-master' segment.
C5_ArchiveExtracted ==
    (Ended /\ ended.route = "github" /\ ended.created /\ ~ended.undone)
    => /\ ended.err = "none"
       /\ fs[ended.tool].present
       /\ fs[ended.tool].files = ToolFiles
       /\ \A p \in DOMAIN fs[ended.tool].files \cup fs[ended.tool].dirs :
              \A k \in 1..Len(p) : p[k] # "-master"

\* The loop of lines 133-148 alone, on the archive without a directory entry
\* for lib/ and on the one with it: what it would do in an empty target folder.
ExtractionWithoutDirEntry == ExtractAll(EmptyTree, ToolArchive, <<"tool", "-master", "/">>)
ExtractionWithDirEntry == ExtractAll(EmptyTree, ToolArchiveWithDirs, <<"tool", "-master", "/">>)

\* C8: an install of a tool whose URL is Unknown hands the URL to the browser,
\* installs nothing and does not mark the tool installed: is_tool_installed is
\* false afterwards and no 'installed' success was shown with the button
\* switched to Uninstall.
C8_UnknownNotInstalled ==
    (Ended /\ ended.route = "browser" /\ ended.created /\ ~ended.undone)
    => /\ ended.url \in browser
       /\ ~is_tool_installed(ended.tool)
       /\ ~(hud[ended.tool] = "installed" /\ title[ended.tool] = "Uninstall")

\* C10 (the outcome of the task): an install task that ends after an uninstall
\* of its pair has returned, no install called since, ends by a failure that
\* is shown as 'Installation failed'.
C10_LateTaskFails ==
    \A t \in Tools :
        (Uninstalled(t) /\ Ending /\ ended'.tool = t)
        => (ended'.err # "none" /\ hud'[t] = "failed")

\* C10 (the folder): once an uninstall has returned and no install is called
\* after it, the target folder is absent, whatever the install tasks still do.
C10_FolderStaysAbsent ==
    \A t \in Tools : Uninstalled(t) => (~fs[t].present /\ fs[t] = AbsentTree)

\* C10: in every interleaving of an install task with uninstall calls of the
\* same pair, once an uninstall has returned and no install is called after it
\* the folder stays absent: the task never makes it again nor writes into it,
\* its write fails and is reported as an installation failure.
C10_UninstallWins ==
    /\ []C10_FolderStaysAbsent
    /\ [][C10_LateTaskFails]_vars

(***************************************************************************)
(* Properties of GistInstaller.install called on its own (SpecGist)        *)
(***************************************************************************)
\* the files of the answer whose declared language is exactly 'Python'
DeclaredPython(resp) == {f \in resp.files : f.language = "Python"}

\* C6: the gist installer writes a file only when exactly one file of the gist
\* declares the language 'Python': no such file is NoFilesInGistError, several
\* are MultipleFilesInGistError, a URL the gist pattern does not match is
\* InvalidGistURLError, a failed fetch or decode is GistDownloadError; a failed
\* call leaves the target folder as it was, a successful one has written
\* exactly that file, with its content as it is.
C6_GistInstall ==
    LET t == ended.tool
        py == DeclaredPython(ended.resp)
        matched == Truthy(get_gist_id(ended.url))
        fetched == matched /\ ended.resp.kind = "ok"
    IN /\ (Ended /\ ended.via = "direct") =>
            /\ ~GistMatch(ended.url) => ended.err = "InvalidGistURLError"
            /\ ended.err = "InvalidGistURLError" => ~matched
            /\ (matched /\ ended.resp.kind # "ok") => ended.err = "GistDownloadError"
            /\ (fetched /\ Cardinality(py) = 0) => ended.err = "NoFilesInGistError"
            /\ (fetched /\ Cardinality(py) >= 2) => ended.err = "MultipleFilesInGistError"
            /\ (fetched /\ Cardinality(py) = 1) => ended.err \in {"none", "IOError"}
            /\ ended.err # "none" => fs[t] = ended.before
            /\ ended.err = "none" =>
                 /\ fetched /\ Cardinality(py) = 1
                 /\ \E f \in py :
                      fs[t] = [ended.before EXCEPT !.files = Put(@, f.filename, f.content)]
       /\ \A i \in DOMAIN tasks :
            (tasks[i].via = "direct" /\ fs[tasks[i].tool] # tasks[i].before)
            => /\ Truthy(get_gist_id(tasks[i].url))
               /\ tasks[i].resp.kind = "ok"
               /\ Cardinality(DeclaredPython(tasks[i].resp)) = 1

\* C6's case: of a gist with a Python file and a text file, the Python file
\* has been written beside the file the folder held.
C6_Witness ==
    /\ Ended /\ ended.via = "direct" /\ ended.err = "none"
    /\ ended.resp.files = {PyA, Txt}
    /\ DOMAIN ended.before.files = {<<"README.txt">>}
    /\ fs[ended.tool].files = Put(ended.before.files, <<"tool.py">>, "print 1")

(***************************************************************************)
(* Properties of the listing parser (SpecParse)                            *)
(***************************************************************************)
\* the texts that are URLs
UrlTok == {"http://x", "http://y", "http://z", "http://d"}
IsUrlText(s) == Len(s) = 1 /\ s[1] \in UrlTok

\* the rows and the definition lines of the document the last call was for
RetRows == FindAll(net[ret.url], TRUE)
RetDefs == FindAll(net[ret.url], FALSE)
\* the working map of lines 86-88, before any label is resolved
RetRaw == BuildTools(NoTools, RetRows)
\* the label a row's url slot refers to: the slot, or the name when it is empty
RefLabel(n) == IF RetRaw[n].url = <<>> THEN n ELSE RetRaw[n].url
Defined(label) == \E k \in 1..Len(RetDefs) : RetDefs[k].name = label

\* C2: every entry get_tools_from_md returns has a non-empty, resolved url (a
\* direct URL or the target of a label definition), never a label; a row whose
\* label no line of the document defines is not in the result.
C2_ResolvedUrls ==
    ret.fetched =>
        /\ \A n \in DOMAIN ret.result : IsUrlText(ret.result[n].url)
        /\ \A n \in DOMAIN RetRaw :
              (~IsUrlText(RetRaw[n].url) /\ ~Defined(RefLabel(n))) => n \notin DOMAIN ret.result

\* C3: for every definition line (label, url) of the document, wherever it
\* stands, every tool whose url slot is the label ends with that url and every
\* tool whose description is '[label]' ends with that url as its description,
\* whether or not the label is also the name of a tool.  (Stated for the
\* labels the document defines once, with a non-empty url.)
C3_UniformResolution ==
    ret.fetched =>
        \A k \in 1..Len(RetDefs) :
            LET label == RetDefs[k].name
                url == RetDefs[k].url
            IN (url # <<>> /\ \A j \in 1..Len(RetDefs) : RetDefs[j].name = label => j = k)
               => \A n \in DOMAIN RetRaw :
                     /\ RetRaw[n].url = label =>
                            (n \in DOMAIN ret.result /\ ret.result[n].url = url)
                     /\ (RetRaw[n].description = Bracket(label) /\ n \in DOMAIN ret.result)
                            => ret.result[n].description = url

\* C7: the cache is keyed by the document's URL: once get_tools_from_md(u) has
\* returned, u is a key of the cache with the result returned, a later call
\* for u fetches nothing, and the cache has keys only for URLs that were asked.
C7_CacheKeyedByUrl ==
    /\ \A u \in DocUrls : fetches[u] <= 1
    /\ DOMAIN cached_tools_dict \subseteq {u \in DocUrls : fetches[u] > 0}
    /\ ret.url # <<>> =>
          (ret.url \in DOMAIN cached_tools_dict /\ cached_tools_dict[ret.url] = ret.result)

====
